---- MODULE Spec2Model ----
(***************************************************************************)
(* A model of the noon calendar agent: the compiled graphs                 *)
(* (agent/main.py, noon-agent/noon_agent/main.py) and the tool layer       *)
(* (agent/tools.py).                                                       *)
(*                                                                         *)
(* Python values are modelled as follows.  A str that the code strips,     *)
(* slices or concatenates is a sequence of tokens (a token stands for one  *)
(* character or for one fixed piece of text); a str that the code only     *)
(* passes on is a TLA+ string.  A dict is a function whose domain is its   *)
(* set of keys, a list is a sequence, None is the value None below, and an *)
(* exception is a record [type, msg] with str(e) = msg.                    *)
(***************************************************************************)
EXTENDS Integers, Sequences, FiniteSets, TLC

VARIABLES
    \* ---- the graphs (one resolution cycle = one run from START to END)
    entry,          \* which entry point started the run
    node,           \* the node the run is at: START, a node name, END, RAISED
    gstate,         \* the graph's state dict
    output,         \* what the entry point returned once the run is at END
    escaped,        \* the exception that left the entry point, or None
    invoked,        \* the tools the run has invoked, in order
    roundTrips,     \* completed agent -> tools -> agent round trips
    inFlight,       \* the tool calls of the tools node that are being executed
    \* ---- the tool layer (agent/tools.py)
    auth_context,   \* the value of the ContextVar _auth_context
    calendar_client,\* the module global _calendar_client
    calendar,       \* the events the Calendar Service holds (what the port answers)
    phase,          \* "active": the cycle may call tools; "terminated": it has emitted
    cycleSetAuth,   \* whether the current cycle called set_auth_context
    call,           \* the last tool invocation: arguments, port traffic, outcome
    \* ---- one call of _run_async, step by step (agent/tools.py)
    loop_env,       \* the calling thread's event loop: none, idle or running
    coroutine,      \* the coroutine: what it does when run, and whether it was awaited
    pc,             \* where the calling thread and the worker thread are
    future,         \* the executor's future for the submitted call
    executions,     \* where the coroutine's body was executed: thread and loop
    bridge_result,  \* what _run_async returned or raised
    ready,          \* other tasks that are ready to run on the caller's loop
    \* ---- concurrent cycles, each in an execution context of its own
    auth_store,     \* the value of _auth_context in each cycle's context
    cpc,            \* where each cycle is
    locals,         \* the local variables of each cycle's tool call
    creations,      \* the clients create_calendar_client() has built, in order
    port_log,       \* the calls the Calendar Service Port has received
    \* ---- two runs that differ only in the auth bundle
    twin            \* the two runs' outcomes, side by side

graphVars == <<entry, node, gstate, output, escaped, invoked, roundTrips, inFlight>>
toolVars == <<auth_context, calendar_client, calendar, phase, cycleSetAuth, call>>
bridgeVars == <<loop_env, coroutine, pc, future, executions, bridge_result, ready>>
cycleVars == <<auth_store, cpc, locals, creations, port_log>>
vars == <<entry, node, gstate, output, escaped, invoked, roundTrips, inFlight,
          auth_context, calendar_client, calendar, phase, cycleSetAuth, call,
          loop_env, coroutine, pc, future, executions, bridge_result, ready,
          auth_store, cpc, locals, creations, port_log, twin>>

(***************************************************************************)
(* Bounds of the model.                                                    *)
(***************************************************************************)
MaxQueryLen == 2
MaxRoundTrips == 3
MaxToolCalls == 2
MaxEvents == 2
MaxHistory == 3

(***************************************************************************)
(* Python helpers.                                                         *)
(***************************************************************************)
None == "None"

Min(a, b) == IF a <= b THEN a ELSE b

\* s[:n]
Take(s, n) == SubSeq(s, 1, Min(n, Len(s)))

\* all sequences over S of length at most n
SeqUpTo(S, n) == UNION {[1..k -> S] : k \in 0..n}

\* d.get(k)
Get(d, k) == IF k \in DOMAIN d THEN d[k] ELSE None

\* d.get(k, default)
GetOr(d, k, default) == IF k \in DOMAIN d THEN d[k] ELSE default

\* d[k] = v
WithKey(d, k, v) == [x \in (DOMAIN d) \cup {k} |-> IF x = k THEN v ELSE d[x]]

\* Restrict with no restriction: every key of d is kept
Unrestricted(d, K) == d

\* the dict d restricted to the keys K
Restrict(d, K) == [x \in (DOMAIN d) \cap K |-> d[x]]

Exc(type, msg) == [type |-> type, msg |-> msg]

\* no exception
NoExc == [type |-> "None", msg |-> <<>>]

\* nothing returned (yet)
NoOutput == <<>>

Whitespace == {" "}

RECURSIVE lstrip(_)
lstrip(s) ==
    IF s = <<>> THEN s
    ELSE IF Head(s) \in Whitespace THEN lstrip(Tail(s)) ELSE s

RECURSIVE rstrip(_)
rstrip(s) ==
    IF s = <<>> THEN s
    ELSE IF s[Len(s)] \in Whitespace THEN rstrip(SubSeq(s, 1, Len(s) - 1)) ELSE s

\* str.strip()
strip(s) == rstrip(lstrip(s))

(***************************************************************************)
(* The action taxonomy (agent/main.py, agent/tools.py).                    *)
(***************************************************************************)
ActionKinds ==
    {"show-event", "show-schedule", "create-event", "update-event",
     "delete-event", "no-action"}

OutputStateKeys == {"success", "request", "metadata"}

INTERNAL_TOOLS == {"read_schedule", "search_events", "read_event", "list_calendars"}

EXTERNAL_TOOLS ==
    {"show_schedule", "show_event", "request_create_event",
     "request_update_event", "request_delete_event", "do_nothing"}

\* the "type" a terminal tool puts in the record it returns
KindOf(tool) ==
    CASE tool = "show_schedule" -> "show-schedule"
      [] tool = "show_event" -> "show-event"
      [] tool = "request_create_event" -> "create-event"
      [] tool = "request_update_event" -> "update-event"
      [] tool = "request_delete_event" -> "delete-event"
      [] tool = "do_nothing" -> "no-action"

(***************************************************************************)
(* Inputs of the graphs.                                                   *)
(***************************************************************************)
Chars == {" ", "a"}
Queries == SeqUpTo(Chars, MaxQueryLen)
AuthBundles == {"authA", "authB"}

\* what the model call can do: answer with a content, or raise
LlmContents == {<<>>, <<"hi">>}
LlmErrors == {Exc("APIError", <<"no", "key">>)}
LlmOutcomes ==
    {[kind |-> "ok", content |-> c] : c \in LlmContents}
        \cup {[kind |-> "raise", exc |-> e] : e \in LlmErrors}

QueryPromptMax == 500
ErrorTextMax == 200

(***************************************************************************)
(* agent/main.py: the graph START -> hello_world -> END.                   *)
(***************************************************************************)
\* the prompt hello_world sends to the model
PromptText(query) ==
    <<"Say hello and respond to this query: ">>
        \o (IF query # <<>> THEN Take(query, QueryPromptMax) ELSE <<"nothing">>)

\* what hello_world returns, for the state it is given and the model's outcome
hello_world(state, llm) ==
    LET query == GetOr(state, "query", <<>>)
        prompt_text == PromptText(query)
        llm_response ==
            IF llm.kind = "ok" THEN llm.content
            ELSE <<"Hello, World! I encountered an error: ">>
                     \o Take(llm.exc.msg, ErrorTextMax)
    IN  [success |-> TRUE,
         request |-> "no-action",
         metadata |-> [reason |-> llm_response]]

\* graph.invoke(input): START -> hello_world
InvokeNoonGraph ==
    /\ node = "START"
    /\ \E input \in {[query |-> q, auth |-> a] : q \in Queries, a \in AuthBundles \cup {None}}
                    \cup {[auth |-> a] : a \in AuthBundles \cup {None}} :
        /\ entry' = "noon_graph"
        /\ gstate' = input
        /\ node' = "hello_world"
    /\ UNCHANGED <<output, escaped, invoked, roundTrips, inFlight>>
    /\ UNCHANGED toolVars
    /\ UNCHANGED <<bridgeVars, cycleVars, twin>>

\* the node hello_world runs, its update is merged into the state, and the run
\* ends: the graph returns the state's OutputState keys (output_schema)
HelloWorldNode ==
    /\ node = "hello_world"
    /\ \E llm \in LlmOutcomes :
        LET update == hello_world(gstate, llm)
            merged == [k \in (DOMAIN gstate) \cup (DOMAIN update) |->
                          IF k \in DOMAIN update THEN update[k] ELSE gstate[k]]
        IN  /\ gstate' = merged
            /\ output' = Restrict(merged, OutputStateKeys)
            /\ node' = "END"
    /\ UNCHANGED <<entry, escaped, invoked, roundTrips, inFlight>>
    /\ UNCHANGED toolVars
    /\ UNCHANGED <<bridgeVars, cycleVars, twin>>

(***************************************************************************)
(* noon-agent/noon_agent/main.py: the graph START -> agent <-> tools.      *)
(***************************************************************************)
\* the tools build_agent_graph registers with its ToolNode
GraphTools == {"ping", "clock"}

HumanMessage(content) == [type |-> "human", content |-> content]
AIMessage(tool_calls) == [type |-> "ai", tool_calls |-> tool_calls]
ToolMessage(name) == [type |-> "tool", name |-> name]

\* what the bound model can answer: an AIMessage with some tool calls, or raise
AgentOutcomes ==
    {[kind |-> "ok", tool_calls |-> tc] : tc \in SeqUpTo(GraphTools, MaxToolCalls)}
        \cup {[kind |-> "raise", exc |-> e] : e \in LlmErrors}

\* _make_model: raises when no API key is configured
_make_model(keyConfigured) ==
    IF ~keyConfigured
    THEN [kind |-> "raise", exc |-> Exc("ValueError", <<"OPENAI_API_KEY is not configured">>)]
    ELSE [kind |-> "ok"]

\* _route_after_agent without the test of tool_calls: any AIMessage goes to tools
RouteOnAnyAIMessage(state) ==
    IF state["messages"] = <<>> THEN "END"
    ELSE IF state["messages"][Len(state["messages"])].type = "ai" THEN "tools" ELSE "END"

\* the conditional edge after the agent node
_route_after_agent(state) ==
    LET messages == state["messages"]
    IN  IF messages = <<>> THEN "END"
        ELSE LET last == messages[Len(messages)]
             IN  IF last.type = "ai" /\ last.tool_calls # <<>> THEN "tools" ELSE "END"

Payloads ==
    LET contexts == {<<>>, [context |-> [timezone |-> "UTC"]]}
    IN  {c : c \in contexts}
            \cup {WithKey(c, "query", q) : c \in contexts, q \in Queries}

\* invoke_agent(payload, settings, llm) up to the start of the run: it strips the
\* query, refuses an empty one, builds the graph (and the model, unless one is
\* passed in) and enters the graph at the agent node
InvokeAgent ==
    /\ node = "START"
    /\ \E payload \in Payloads, llmGiven \in BOOLEAN, keyConfigured \in BOOLEAN :
        LET query == strip(GetOr(payload, "query", <<>>))
            context == GetOr(payload, "context", <<>>)
            composed_prompt == query \o <<"\n\n", "context_block">>
            initial_state == [messages |-> <<HumanMessage(composed_prompt)>>,
                              context |-> context]
            model == IF llmGiven THEN [kind |-> "ok"] ELSE _make_model(keyConfigured)
        IN  /\ entry' = "invoke_agent"
            /\ IF query = <<>>
               THEN /\ escaped' = Exc("ValueError", <<"A query is required to run the agent.">>)
                    /\ node' = "RAISED"
                    /\ gstate' = gstate
               ELSE IF model.kind = "raise"
               THEN /\ escaped' = model.exc
                    /\ node' = "RAISED"
                    /\ gstate' = gstate
               ELSE /\ escaped' = escaped
                    /\ node' = "agent"
                    /\ gstate' = initial_state
    /\ UNCHANGED <<output, invoked, roundTrips, inFlight>>
    /\ UNCHANGED toolVars
    /\ UNCHANGED <<bridgeVars, cycleVars, twin>>

\* agent_node: the model answers and its message is appended; then the
\* conditional edge routes to the tools node or to END, where graph.invoke
\* returns the state.  An exception of the model leaves invoke_agent.
AgentNode ==
    /\ node = "agent"
    /\ \E llm \in AgentOutcomes :
        IF llm.kind = "raise"
        THEN /\ escaped' = llm.exc
             /\ node' = "RAISED"
             /\ UNCHANGED <<gstate, output>>
        ELSE LET new == [gstate EXCEPT !["messages"] = @ \o <<AIMessage(llm.tool_calls)>>]
                 to == _route_after_agent(new)
             IN  /\ gstate' = new
                 /\ node' = to
                 /\ output' = IF to = "END" THEN new ELSE output
                 /\ escaped' = escaped
    /\ UNCHANGED <<entry, invoked, roundTrips, inFlight>>
    /\ UNCHANGED toolVars
    /\ UNCHANGED <<bridgeVars, cycleVars, twin>>

\* the tool calls the tools node has to execute: those of the last message
PendingCalls(state) == state["messages"][Len(state["messages"])].tool_calls

\* the tools node starts: ToolNode hands every tool call of the last message to
\* its executor at once, one worker per call
ToolsNode ==
    /\ node = "tools"
    /\ inFlight = {}
    /\ roundTrips < MaxRoundTrips
    /\ inFlight' = DOMAIN PendingCalls(gstate)
    /\ invoked' = invoked \o PendingCalls(gstate)
    /\ UNCHANGED <<entry, node, gstate, output, escaped, roundTrips>>
    /\ UNCHANGED toolVars
    /\ UNCHANGED <<bridgeVars, cycleVars, twin>>

\* one of the tool calls in flight returns; when the last one has, the node
\* answers every call with a ToolMessage, in the order of the calls, and the
\* unconditional edge tools -> agent is taken
ToolReturns ==
    /\ node = "tools"
    /\ \E i \in inFlight :
        /\ inFlight' = inFlight \ {i}
        /\ IF inFlight \ {i} = {}
           THEN LET calls == PendingCalls(gstate)
                    answers == [j \in 1..Len(calls) |-> ToolMessage(calls[j])]
                IN  /\ gstate' = [gstate EXCEPT !["messages"] = @ \o answers]
                    /\ roundTrips' = roundTrips + 1
                    /\ node' = "agent"
           ELSE UNCHANGED <<gstate, roundTrips, node>>
    /\ UNCHANGED <<entry, output, escaped, invoked>>
    /\ UNCHANGED toolVars
    /\ UNCHANGED <<bridgeVars, cycleVars, twin>>

GraphInit ==
    /\ entry = "none"
    /\ node = "START"
    /\ gstate = <<>>
    /\ output = NoOutput
    /\ escaped = NoExc
    /\ invoked = <<>>
    /\ roundTrips = 0
    /\ inFlight = {}

(***************************************************************************)
(* agent/tools.py: the auth context, the calendar client, the bridge to    *)
(* the asynchronous Calendar Service Port.                                  *)
(***************************************************************************)
get_auth_context == auth_context

\* what create_calendar_client() can do when the global is still None
CreateOutcomes ==
    {[kind |-> "ok", client |-> "created"],
     [kind |-> "raise", exc |-> Exc("ValueError", "calendar client is not configured")]}

\* get_calendar_client(): the global, created on first use
get_calendar_client(current, created) ==
    IF current = None
    THEN IF created.kind = "ok" THEN [kind |-> "ok", client |-> created.client] ELSE created
    ELSE [kind |-> "ok", client |-> current]

\* the global _calendar_client after get_calendar_client()
ClientAfterGet(current, created) ==
    IF current = None /\ created.kind = "ok" THEN created.client ELSE current

\* the outcomes of create_calendar_client() that matter in the current state
ClientOutcomes(current) ==
    IF current = None THEN CreateOutcomes ELSE {[kind |-> "ok", client |-> current]}

\* the caller's event loop: none in this thread, one that is not running, or a
\* running one
LoopEnvs == {"none", "idle", "running"}

IsRuntimeError(exc) == exc.type = "RuntimeError"

\* _run_async_in_thread(coro): a new loop runs the coroutine to completion.  In a
\* thread whose own loop is running, run_until_complete refuses to start; a
\* coroutine that was already awaited cannot be run again
_run_async_in_thread(coro, awaited, loopRunningHere) ==
    IF loopRunningHere
    THEN [kind |-> "raise",
          exc |-> Exc("RuntimeError",
                      "Cannot run the event loop while another loop is running")]
    ELSE IF awaited
         THEN [kind |-> "raise",
               exc |-> Exc("RuntimeError", "cannot reuse already awaited coroutine")]
         ELSE coro

\* _run_async(coro): coro is what the coroutine does when it is run (returns a
\* value or raises).  With no event loop get_event_loop() raises RuntimeError and
\* the handler runs the coroutine.  Otherwise the coroutine is run, by the loop
\* itself or, when the loop is running, by a worker thread with a loop of its
\* own; a RuntimeError it raises reaches the same handler, which calls
\* _run_async_in_thread with the coroutine again, in the calling thread
_run_async(loop, coro) ==
    IF loop = "none"
    THEN _run_async_in_thread(coro, FALSE, FALSE)
    ELSE LET first == IF loop = "running"
                      THEN _run_async_in_thread(coro, FALSE, FALSE)
                      ELSE coro
         IN  IF first.kind = "raise" /\ IsRuntimeError(first.exc)
             THEN _run_async_in_thread(coro, TRUE, loop = "running")
             ELSE first

(***************************************************************************)
(* What the Calendar Service Port can answer.                              *)
(***************************************************************************)
\* a list element that is not a dict
PyNone == [pytype |-> "NoneType"]

IsDict(x) == "pytype" \notin DOMAIN x

FullEvent ==
    [id |-> "e1", calendar_id |-> "c1", summary |-> "standup",
     start |-> "t1", end |-> "t2", status |-> "confirmed"]
NullCalendarEvent == [id |-> "e2", calendar_id |-> None]
NoIdEvent == [calendar_id |-> "c1", summary |-> "lunch"]
NoCalendarEvent == [id |-> "e3", start |-> "t1"]

SampleItems == {FullEvent, NullCalendarEvent, NoIdEvent, NoCalendarEvent, PyNone}

Calendars == SeqUpTo(SampleItems, MaxEvents)

CalendarList == <<[id |-> "c1", name |-> "Work"]>>

PortErrors ==
    {Exc("RuntimeError", "Event loop is closed"),
     Exc("HTTPError", "upstream unavailable")}

PortRaises == {[kind |-> "raise", exc |-> e] : e \in PortErrors}

Ok(v) == [kind |-> "ok", value |-> v]

Raise(e) == [kind |-> "raise", exc |-> e]

\* the port was not called
NoReply == [kind |-> "none"]

\* tool arguments
Times == {"09:00", "10:00"}
Windows == {<<"09:00", "10:00">>, <<"10:00", "09:00">>}
EventIds == {"e1", "e9"}
CalendarIds == {"c1"}
Keywords == {"standup"}
OptText == {None, "", "notes"}

(***************************************************************************)
(* agent/tools.py: the information-gathering tools.                        *)
(***************************************************************************)
\* the record of one tool invocation
ToolCall(tool, args, auth, portCalls, reply, outcome, result, error) ==
    [tool |-> tool, args |-> args, auth |-> auth, portCalls |-> portCalls,
     reply |-> reply, outcome |-> outcome, result |-> result, error |-> error]

NoError == Exc("None", "")

NoCall == ToolCall("none", <<>>, None, <<>>, NoReply, "none", <<>>, NoError)

PortCall(op, args, auth) == [op |-> op, args |-> args, auth |-> auth]

\* if "id" not in event or "calendar_id" not in event
MissingRequired(event) == "id" \notin DOMAIN event \/ "calendar_id" \notin DOMAIN event

\* FormatEvent with the projection left out: the port's event is appended as it is
FormatEventUnprojected(event) == event

\* the dict appended for an event that is kept
FormatEvent(event) ==
    [id |-> event["id"],
     summary |-> Get(event, "summary"),
     start |-> Get(event, "start"),
     end |-> Get(event, "end"),
     calendar_id |-> event["calendar_id"]]

\* the loop over the port's events, from position i with the list built so far;
\* `in` on an element that is not a dict raises TypeError
RECURSIVE FormatLoop(_, _, _)
FormatLoop(events, i, result) ==
    IF i > Len(events) THEN Ok(result)
    ELSE IF ~IsDict(events[i])
         THEN Raise(Exc("TypeError", "argument of type 'NoneType' is not iterable"))
         ELSE IF MissingRequired(events[i])
              THEN FormatLoop(events, i + 1, result)
              ELSE FormatLoop(events, i + 1, Append(result, FormatEvent(events[i])))

FormatEvents(events) == FormatLoop(events, 1, <<>>)

\* read_schedule: an exception anywhere in the body is logged and re-raised
read_schedule(start_time, end_time, auth, client, loop, port) ==
    LET args == <<start_time, end_time>>
        sent == <<PortCall("read_schedule", args, auth)>>
    IN  IF client.kind = "raise"
        THEN ToolCall("read_schedule", args, auth, <<>>, NoReply, "raised", <<>>, client.exc)
        ELSE LET events == _run_async(loop, port)
             IN  IF events.kind = "raise"
                 THEN ToolCall("read_schedule", args, auth, sent, port, "raised", <<>>, events.exc)
                 ELSE LET formatted == FormatEvents(events.value)
                      IN  IF formatted.kind = "raise"
                          THEN ToolCall("read_schedule", args, auth, sent, port,
                                        "raised", <<>>, formatted.exc)
                          ELSE ToolCall("read_schedule", args, auth, sent, port,
                                        "returned", formatted.value, NoError)

\* search_events: an exception anywhere in the body is logged and [] is returned
search_events(keywords, start_time, end_time, auth, client, loop, port) ==
    LET args == <<keywords, start_time, end_time>>
        sent == <<PortCall("search_events", args, auth)>>
    IN  IF client.kind = "raise"
        THEN ToolCall("search_events", args, auth, <<>>, NoReply, "returned", <<>>, NoError)
        ELSE LET events == _run_async(loop, port)
             IN  IF events.kind = "raise"
                 THEN ToolCall("search_events", args, auth, sent, port, "returned", <<>>, NoError)
                 ELSE LET formatted == FormatEvents(events.value)
                      IN  IF formatted.kind = "raise"
                          THEN ToolCall("search_events", args, auth, sent, port,
                                        "returned", <<>>, NoError)
                          ELSE ToolCall("search_events", args, auth, sent, port,
                                        "returned", formatted.value, NoError)

\* ErrorEvent without the requested identifiers: only the error is reported
ErrorEventWithoutIds(event_id, calendar_id, exc) == [error |-> exc.msg]

\* the dict read_event returns when anything in its body raised
ErrorEvent(event_id, calendar_id, exc) ==
    [id |-> event_id, calendar_id |-> calendar_id, error |-> exc.msg]

\* the port's event with the requested identifiers put in where it has none
FillIds(event, event_id, calendar_id) ==
    LET withId == IF "id" \notin DOMAIN event THEN WithKey(event, "id", event_id) ELSE event
    IN  IF "calendar_id" \notin DOMAIN withId
        THEN WithKey(withId, "calendar_id", calendar_id)
        ELSE withId

\* read_event: an exception anywhere in the body yields the minimal dict
read_event(event_id, calendar_id, auth, client, loop, port) ==
    LET args == <<event_id, calendar_id>>
        sent == <<PortCall("read_event", args, auth)>>
    IN  IF client.kind = "raise"
        THEN ToolCall("read_event", args, auth, <<>>, NoReply, "returned",
                      ErrorEvent(event_id, calendar_id, client.exc), NoError)
        ELSE LET event == _run_async(loop, port)
             IN  IF event.kind = "raise"
                 THEN ToolCall("read_event", args, auth, sent, port, "returned",
                               ErrorEvent(event_id, calendar_id, event.exc), NoError)
                 ELSE IF ~IsDict(event.value)
                 THEN ToolCall("read_event", args, auth, sent, port, "returned",
                               ErrorEvent(event_id, calendar_id,
                                   Exc("TypeError", "argument of type 'NoneType' is not iterable")),
                               NoError)
                 ELSE ToolCall("read_event", args, auth, sent, port, "returned",
                               FillIds(event.value, event_id, calendar_id), NoError)

\* list_calendars: the port's list as it is; [] when anything raised
list_calendars(auth, client, loop, port) ==
    LET sent == <<PortCall("list_calendars", <<>>, auth)>>
    IN  IF client.kind = "raise"
        THEN ToolCall("list_calendars", <<>>, auth, <<>>, NoReply, "returned", <<>>, NoError)
        ELSE LET calendars == _run_async(loop, port)
             IN  IF calendars.kind = "raise"
                 THEN ToolCall("list_calendars", <<>>, auth, sent, port, "returned", <<>>, NoError)
                 ELSE ToolCall("list_calendars", <<>>, auth, sent, port,
                               "returned", calendars.value, NoError)

(***************************************************************************)
(* agent/tools.py: the terminal action tools.                              *)
(***************************************************************************)
\* `if value:` for an optional str argument
Truthy(value) == value # None /\ value # ""

\* a dict with the key set only when the value is truthy
WithTruthy(d, k, arg, v) == IF Truthy(arg) THEN WithKey(d, k, v) ELSE d

show_schedule(start_time, end_time) ==
    [type |-> "show-schedule",
     metadata |-> ("start-date" :> start_time @@ "end-date" :> end_time)]

show_event(event_id, calendar_id) ==
    [type |-> "show-event",
     metadata |-> ("event-id" :> event_id @@ "calendar-id" :> calendar_id)]

\* request_create_event with the times left out of the record
CreateEventWithoutTimes(summary, start_time, end_time, calendar_id, description, location) ==
    [type |-> "create-event",
     metadata |-> [summary |-> summary, calendar_id |-> calendar_id]]

request_create_event(summary, start_time, end_time, calendar_id, description, location) ==
    LET base == [summary |-> summary,
                 start |-> [dateTime |-> start_time],
                 end |-> [dateTime |-> end_time],
                 calendar_id |-> calendar_id]
        withDescription == WithTruthy(base, "description", description, description)
    IN  [type |-> "create-event",
         metadata |-> WithTruthy(withDescription, "location", location, location)]

request_update_event(event_id, calendar_id, summary, start_time, end_time, description, location) ==
    LET base == ("event-id" :> event_id @@ "calendar-id" :> calendar_id)
        m1 == WithTruthy(base, "summary", summary, summary)
        m2 == WithTruthy(m1, "start", start_time, [dateTime |-> start_time])
        m3 == WithTruthy(m2, "end", end_time, [dateTime |-> end_time])
        m4 == WithTruthy(m3, "description", description, description)
    IN  [type |-> "update-event",
         metadata |-> WithTruthy(m4, "location", location, location)]

request_delete_event(event_id, calendar_id) ==
    [type |-> "delete-event",
     metadata |-> ("event-id" :> event_id @@ "calendar-id" :> calendar_id)]

do_nothing(reason) ==
    [type |-> "no-action", metadata |-> [reason |-> reason]]

(***************************************************************************)
(* The tool layer as a state machine: a cycle sets its auth, calls         *)
(* information-gathering tools and ends with one terminal tool; the next   *)
(* cycle runs in the same execution context.                               *)
(***************************************************************************)
\* set_auth_context(auth)
SetAuthContext ==
    /\ phase = "active"
    /\ \E auth \in AuthBundles \cup {None} :
        auth_context' = auth
    /\ cycleSetAuth' = TRUE
    /\ UNCHANGED <<calendar_client, calendar, phase, call>>
    /\ UNCHANGED graphVars
    /\ UNCHANGED <<bridgeVars, cycleVars, twin>>

\* what the port's read_schedule / search_events coroutine does
EventReplies == {Ok(calendar)} \cup PortRaises

\* what the port's read_event coroutine does: an event it holds, None, or raises
EventReply ==
    {Ok(calendar[i]) : i \in DOMAIN calendar} \cup {Ok(PyNone)} \cup PortRaises

ReadSchedule ==
    /\ phase = "active"
    /\ \E w \in Windows, created \in ClientOutcomes(calendar_client),
          loop \in LoopEnvs, port \in EventReplies :
        /\ call' = read_schedule(w[1], w[2], get_auth_context,
                                 get_calendar_client(calendar_client, created), loop, port)
        /\ calendar_client' = ClientAfterGet(calendar_client, created)
    /\ UNCHANGED <<auth_context, calendar, phase, cycleSetAuth>>
    /\ UNCHANGED graphVars
    /\ UNCHANGED <<bridgeVars, cycleVars, twin>>

SearchEvents ==
    /\ phase = "active"
    /\ \E k \in Keywords, w \in Windows, created \in ClientOutcomes(calendar_client),
          loop \in LoopEnvs, port \in EventReplies :
        /\ call' = search_events(k, w[1], w[2], get_auth_context,
                                 get_calendar_client(calendar_client, created), loop, port)
        /\ calendar_client' = ClientAfterGet(calendar_client, created)
    /\ UNCHANGED <<auth_context, calendar, phase, cycleSetAuth>>
    /\ UNCHANGED graphVars
    /\ UNCHANGED <<bridgeVars, cycleVars, twin>>

ReadEvent ==
    /\ phase = "active"
    /\ \E e \in EventIds, c \in CalendarIds, created \in ClientOutcomes(calendar_client),
          loop \in LoopEnvs, port \in EventReply :
        /\ call' = read_event(e, c, get_auth_context,
                              get_calendar_client(calendar_client, created), loop, port)
        /\ calendar_client' = ClientAfterGet(calendar_client, created)
    /\ UNCHANGED <<auth_context, calendar, phase, cycleSetAuth>>
    /\ UNCHANGED graphVars
    /\ UNCHANGED <<bridgeVars, cycleVars, twin>>

ListCalendars ==
    /\ phase = "active"
    /\ \E created \in ClientOutcomes(calendar_client), loop \in LoopEnvs,
          port \in {Ok(CalendarList)} \cup PortRaises :
        /\ call' = list_calendars(get_auth_context,
                                  get_calendar_client(calendar_client, created), loop, port)
        /\ calendar_client' = ClientAfterGet(calendar_client, created)
    /\ UNCHANGED <<auth_context, calendar, phase, cycleSetAuth>>
    /\ UNCHANGED graphVars
    /\ UNCHANGED <<bridgeVars, cycleVars, twin>>

\* Emit for a tool that carries its action out: it calls the port's write itself
EmitAfterPortWrite(tool, args, record) ==
    /\ phase = "active"
    /\ call' = ToolCall(tool, args, get_auth_context,
                        <<PortCall(tool, args, get_auth_context)>>, Ok(record),
                        "returned", record, NoError)
    /\ phase' = "terminated"
    /\ UNCHANGED <<auth_context, calendar_client, calendar, cycleSetAuth>>
    /\ UNCHANGED graphVars
    /\ UNCHANGED <<bridgeVars, cycleVars, twin>>

\* a terminal tool returns its record and the cycle has emitted its action
Emit(tool, args, record) ==
    /\ phase = "active"
    /\ call' = ToolCall(tool, args, None, <<>>, NoReply, "returned", record, NoError)
    /\ phase' = "terminated"
    /\ UNCHANGED <<auth_context, calendar_client, calendar, cycleSetAuth>>
    /\ UNCHANGED graphVars
    /\ UNCHANGED <<bridgeVars, cycleVars, twin>>

ShowSchedule ==
    \E w \in Windows : Emit("show_schedule", w, show_schedule(w[1], w[2]))

ShowEvent ==
    \E e \in {"", "e1"}, c \in CalendarIds :
        Emit("show_event", <<e, c>>, show_event(e, c))

RequestCreateEvent ==
    \E w \in Windows \cup {<<"", "10:00">>}, c \in CalendarIds, d \in OptText, l \in {None, "room"} :
        Emit("request_create_event", <<"standup", w[1], w[2], c, d, l>>,
             request_create_event("standup", w[1], w[2], c, d, l))

RequestUpdateEvent ==
    \E e \in {"", "e1"}, c \in CalendarIds, s \in OptText,
       st \in {None, "09:00"}, d \in {None, "notes"} :
        Emit("request_update_event", <<e, c, s, st, None, d, None>>,
             request_update_event(e, c, s, st, None, d, None))

RequestDeleteEvent ==
    \E e \in {"", "e1"}, c \in CalendarIds :
        Emit("request_delete_event", <<e, c>>, request_delete_event(e, c))

DoNothing ==
    \E r \in {"unsupported request", ""} :
        Emit("do_nothing", <<r>>, do_nothing(r))

\* the next cycle starts in the same execution context
BeginCycle ==
    /\ phase = "terminated"
    /\ phase' = "active"
    /\ cycleSetAuth' = FALSE
    /\ call' = NoCall
    /\ UNCHANGED <<auth_context, calendar_client, calendar>>
    /\ UNCHANGED graphVars
    /\ UNCHANGED <<bridgeVars, cycleVars, twin>>

ToolInit ==
    /\ auth_context = None
    /\ calendar_client = None
    /\ calendar \in Calendars
    /\ phase = "active"
    /\ cycleSetAuth = FALSE
    /\ call = NoCall

(***************************************************************************)
(* agent/tools.py: one call of _run_async, step by step.  The calling      *)
(* thread is the thread of the cycle; when its event loop is running, the  *)
(* cycle is a task of that loop and the call happens inside the task's     *)
(* step, on the loop's thread.                                             *)
(***************************************************************************)
MaxOtherTasks == 2

Threads == {"caller", "worker"}

\* what the coroutine does when it is run: it returns the port's answer or raises
CoroBehaviours == {Ok("events"), Ok("calendars")} \cup PortRaises

\* the coroutine's body executed by the calling thread, on the given loop
InCaller(loop) == [thread |-> "caller", loop |-> loop]

\* InWorker with no hand-off: the coroutine is run on the caller's current loop
OnCallersLoop == InCaller("current")

\* executor.submit(_run_async_in_thread, coro): the coroutine's body is executed
\* by the worker thread, on the loop that thread has just created
InWorker == [thread |-> "worker", loop |-> "new"]

\* the thread of the caller's running loop is between two tasks: the cycle's
\* step has not begun, or _run_async has come back
SchedulerFree == pc["caller"] \in {"pending", "done"}

\* the result of an attempt to run the coroutine reaches _run_async's try block:
\* a RuntimeError goes to the handler, anything else leaves _run_async
Settle(outcome) ==
    IF outcome.kind = "raise" /\ IsRuntimeError(outcome.exc)
    THEN /\ pc' = [pc EXCEPT !["caller"] = "handler"]
         /\ bridge_result' = bridge_result
    ELSE /\ pc' = [pc EXCEPT !["caller"] = "done"]
         /\ bridge_result' = outcome

\* the tool calls _run_async(coro)
CallRunAsync ==
    /\ pc["caller"] = "pending"
    /\ pc' = [pc EXCEPT !["caller"] = "get_event_loop"]
    /\ UNCHANGED <<loop_env, coroutine, future, executions, bridge_result, ready>>
    /\ UNCHANGED <<graphVars, toolVars, cycleVars, twin>>

\* loop = asyncio.get_event_loop(): RuntimeError when the thread has no loop
GetEventLoop ==
    /\ pc["caller"] = "get_event_loop"
    /\ pc' = [pc EXCEPT !["caller"] = IF loop_env = "none" THEN "handler" ELSE "is_running"]
    /\ UNCHANGED <<loop_env, coroutine, future, executions, bridge_result, ready>>
    /\ UNCHANGED <<graphVars, toolVars, cycleVars, twin>>

\* if loop.is_running(): the call is submitted to a ThreadPoolExecutor and the
\* calling thread goes on to future.result(); else loop.run_until_complete(coro)
IsRunning ==
    /\ pc["caller"] = "is_running"
    /\ pc' = IF loop_env = "running"
             THEN [pc EXCEPT !["caller"] = "result", !["worker"] = "run"]
             ELSE [pc EXCEPT !["caller"] = "run_until_complete"]
    /\ UNCHANGED <<loop_env, coroutine, future, executions, bridge_result, ready>>
    /\ UNCHANGED <<graphVars, toolVars, cycleVars, twin>>

\* the worker thread starts _run_async_in_thread(coro): it creates a loop and makes
\* it the current loop of the worker thread
WorkerNewLoop ==
    /\ pc["worker"] = "run"
    /\ pc' = [pc EXCEPT !["worker"] = "run_until_complete"]
    /\ UNCHANGED <<loop_env, coroutine, future, executions, bridge_result, ready>>
    /\ UNCHANGED <<graphVars, toolVars, cycleVars, twin>>

\* the worker thread: loop.run_until_complete(coro)
WorkerRuns ==
    /\ pc["worker"] = "run_until_complete"
    /\ executions' = Append(executions, InWorker)
    /\ coroutine' = [coroutine EXCEPT !.awaited = TRUE]
    /\ pc' = [pc EXCEPT !["worker"] = "close"]
    /\ UNCHANGED <<loop_env, future, bridge_result, ready>>
    /\ UNCHANGED <<graphVars, toolVars, cycleVars, twin>>

\* the worker thread: loop.close(), and the call's outcome fulfils the future
WorkerCloses ==
    /\ pc["worker"] = "close"
    /\ future' = _run_async_in_thread(coroutine.does, FALSE, FALSE)
    /\ pc' = [pc EXCEPT !["worker"] = "done"]
    /\ UNCHANGED <<loop_env, coroutine, executions, bridge_result, ready>>
    /\ UNCHANGED <<graphVars, toolVars, cycleVars, twin>>

\* return future.result(): the calling thread waits until the future is done
FutureResult ==
    /\ pc["caller"] = "result"
    /\ future # NoReply
    /\ Settle(future)
    /\ UNCHANGED <<loop_env, coroutine, future, executions, ready>>
    /\ UNCHANGED <<graphVars, toolVars, cycleVars, twin>>

\* return loop.run_until_complete(coro), on the caller's own loop
RunUntilComplete ==
    /\ pc["caller"] = "run_until_complete"
    /\ executions' = Append(executions, InCaller("current"))
    /\ coroutine' = [coroutine EXCEPT !.awaited = TRUE]
    /\ Settle(coroutine.does)
    /\ UNCHANGED <<loop_env, future, ready>>
    /\ UNCHANGED <<graphVars, toolVars, cycleVars, twin>>

\* except RuntimeError: return _run_async_in_thread(coro), in the calling thread
Handler ==
    /\ pc["caller"] = "handler"
    /\ LET ran == loop_env # "running" /\ ~coroutine.awaited
       IN  /\ executions' = IF ran THEN Append(executions, InCaller("new")) ELSE executions
           /\ coroutine' = [coroutine EXCEPT !.awaited = coroutine.awaited \/ ran]
    /\ bridge_result' = _run_async_in_thread(coroutine.does, coroutine.awaited, loop_env = "running")
    /\ pc' = [pc EXCEPT !["caller"] = "done"]
    /\ UNCHANGED <<loop_env, future, ready>>
    /\ UNCHANGED <<graphVars, toolVars, cycleVars, twin>>

\* the caller's running loop runs one of its other ready tasks
RunOtherTask ==
    /\ loop_env = "running"
    /\ ready > 0
    /\ SchedulerFree
    /\ ready' = ready - 1
    /\ UNCHANGED <<loop_env, coroutine, pc, future, executions, bridge_result>>
    /\ UNCHANGED <<graphVars, toolVars, cycleVars, twin>>

BridgeInit ==
    /\ loop_env \in LoopEnvs
    /\ coroutine \in {[does |-> b, awaited |-> FALSE] : b \in CoroBehaviours}
    /\ pc = [t \in Threads |-> IF t = "caller" THEN "pending" ELSE "idle"]
    /\ future = NoReply
    /\ executions = <<>>
    /\ bridge_result = NoReply
    /\ ready \in IF loop_env = "running" THEN 0..MaxOtherTasks ELSE {0}

\* no call of _run_async is under way
BridgeIdle ==
    /\ loop_env = "none"
    /\ coroutine = [does |-> NoReply, awaited |-> FALSE]
    /\ pc = [t \in Threads |-> "idle"]
    /\ future = NoReply
    /\ executions = <<>>
    /\ bridge_result = NoReply
    /\ ready = 0

(***************************************************************************)
(* agent/tools.py: two cycles that run at the same time, each in a thread  *)
(* or task, hence in an execution context, of its own.  Each cycle sets    *)
(* its auth and calls read_schedule up to the call of the port; the steps  *)
(* of get_calendar_client are the points where threads can interleave.     *)
(***************************************************************************)
Cycles == {"cycleA", "cycleB"}

\* the bundle of each cycle
BundleOf(c) == IF c = "cycleA" THEN "authA" ELSE "authB"

\* the client instance a cycle's call of create_calendar_client() builds
InstanceOf(c) == IF c = "cycleA" THEN "clientA" ELSE "clientB"

\* ContextVarSet for a variable that all contexts share, as a module global would be
SharedSet(store, ctx, value) == [c \in DOMAIN store |-> value]

\* _auth_context.set(value): the value changes in the current context only
ContextVarSet(store, ctx, value) == [store EXCEPT ![ctx] = value]

\* _auth_context.get()
ContextVarGet(store, ctx) == store[ctx]

\* set_auth_context(auth), at the start of the cycle
CycleSetAuth ==
    \E c \in Cycles :
        /\ cpc[c] = "set_auth_context"
        /\ auth_store' = ContextVarSet(auth_store, c, BundleOf(c))
        /\ cpc' = [cpc EXCEPT ![c] = "get_auth_context"]
        /\ UNCHANGED <<locals, creations, port_log>>
        /\ UNCHANGED <<graphVars, toolVars, bridgeVars, twin>>

\* read_schedule: auth = get_auth_context()
CycleGetAuth ==
    \E c \in Cycles :
        /\ cpc[c] = "get_auth_context"
        /\ locals' = [locals EXCEPT ![c].auth = ContextVarGet(auth_store, c)]
        /\ cpc' = [cpc EXCEPT ![c] = "client_is_none"]
        /\ UNCHANGED <<auth_store, creations, port_log>>
        /\ UNCHANGED <<graphVars, toolVars, bridgeVars, twin>>

\* get_calendar_client: if _calendar_client is None
ClientIsNone ==
    \E c \in Cycles :
        /\ cpc[c] = "client_is_none"
        /\ cpc' = [cpc EXCEPT ![c] = IF calendar_client = None
                                     THEN "create_client" ELSE "return_client"]
        /\ UNCHANGED <<auth_store, locals, creations, port_log>>
        /\ UNCHANGED <<graphVars, toolVars, bridgeVars, twin>>

\* get_calendar_client: create_calendar_client() is executed
CreateClient ==
    \E c \in Cycles :
        /\ cpc[c] = "create_client"
        /\ creations' = Append(creations, InstanceOf(c))
        /\ locals' = [locals EXCEPT ![c].created = InstanceOf(c)]
        /\ cpc' = [cpc EXCEPT ![c] = "store_client"]
        /\ UNCHANGED <<auth_store, port_log>>
        /\ UNCHANGED <<graphVars, toolVars, bridgeVars, twin>>

\* get_calendar_client: _calendar_client = <the client just created>
StoreClient ==
    \E c \in Cycles :
        /\ cpc[c] = "store_client"
        /\ calendar_client' = locals[c].created
        /\ cpc' = [cpc EXCEPT ![c] = "return_client"]
        /\ UNCHANGED <<auth_store, locals, creations, port_log>>
        /\ UNCHANGED <<auth_context, calendar, phase, cycleSetAuth, call>>
        /\ UNCHANGED <<graphVars, bridgeVars, twin>>

\* get_calendar_client: return _calendar_client
ReturnClient ==
    \E c \in Cycles :
        /\ cpc[c] = "return_client"
        /\ locals' = [locals EXCEPT ![c].client = calendar_client]
        /\ cpc' = [cpc EXCEPT ![c] = "port"]
        /\ UNCHANGED <<auth_store, creations, port_log>>
        /\ UNCHANGED <<graphVars, toolVars, bridgeVars, twin>>

\* read_schedule: client.read_schedule(start_time, end_time, auth=auth)
CallPort ==
    \E c \in Cycles :
        /\ cpc[c] = "port"
        /\ port_log' = Append(port_log, [cycle |-> c, auth |-> locals[c].auth,
                                         client |-> locals[c].client])
        /\ cpc' = [cpc EXCEPT ![c] = "done"]
        /\ UNCHANGED <<auth_store, locals, creations>>
        /\ UNCHANGED <<graphVars, toolVars, bridgeVars, twin>>

\* each cycle's context starts empty (a new thread) or as a copy of its
\* creator's (a new task), which may hold a bundle that was set before
CyclesInit ==
    /\ auth_store \in [Cycles -> AuthBundles \cup {None}]
    /\ cpc = [c \in Cycles |-> "set_auth_context"]
    /\ locals = [c \in Cycles |-> [auth |-> None, created |-> None, client |-> None]]
    /\ creations = <<>>
    /\ port_log = <<>>

\* no cycle is running
CyclesIdle ==
    /\ auth_store = [c \in Cycles |-> None]
    /\ cpc = [c \in Cycles |-> "done"]
    /\ locals = [c \in Cycles |-> [auth |-> None, created |-> None, client |-> None]]
    /\ creations = <<>>
    /\ port_log = <<>>

(***************************************************************************)
(* Two runs side by side: the same tool or graph with the same arguments   *)
(* and the same answers of the Calendar Service Port, under two different  *)
(* auth bundles.                                                           *)
(***************************************************************************)
\* two different values of the auth bundle
AuthPairs ==
    {ab \in (AuthBundles \cup {None}) \X (AuthBundles \cup {None}) : ab[1] # ab[2]}

\* what graph.invoke(input) returns for the graph of agent/main.py: the state
\* after hello_world, restricted to the keys of the output schema
NoonGraphOutput(input, llm) ==
    LET update == hello_world(input, llm)
        merged == [k \in (DOMAIN input) \cup (DOMAIN update) |->
                      IF k \in DOMAIN update THEN update[k] ELSE input[k]]
    IN  Restrict(merged, OutputStateKeys)

\* invocations of the terminal tools, each with the record it returns
TerminalSamples ==
    {<<"show_schedule", w, show_schedule(w[1], w[2])>> : w \in Windows}
        \cup {<<"show_event", <<e, "c1">>, show_event(e, "c1")>> : e \in EventIds}
        \cup {<<"request_create_event", <<"standup", w[1], w[2], "c1", d, None>>,
                request_create_event("standup", w[1], w[2], "c1", d, None)>> :
                  w \in Windows, d \in OptText}
        \cup {<<"request_update_event", <<e, "c1", s, None, None, None, None>>,
                request_update_event(e, "c1", s, None, None, None, None)>> :
                  e \in EventIds, s \in OptText}
        \cup {<<"request_delete_event", <<e, "c1">>, request_delete_event(e, "c1")>> :
                  e \in EventIds}
        \cup {<<"do_nothing", <<"unsupported request">>, do_nothing("unsupported request")>>}

\* no pair of runs has been made
NoTwin == [left |-> NoCall, right |-> NoCall]

TwinReadSchedule ==
    /\ twin = NoTwin
    /\ \E ab \in AuthPairs, w \in Windows, created \in CreateOutcomes,
          loop \in LoopEnvs, port \in EventReplies :
        twin' = [left |-> read_schedule(w[1], w[2], ab[1],
                              get_calendar_client(None, created), loop, port),
                 right |-> read_schedule(w[1], w[2], ab[2],
                              get_calendar_client(None, created), loop, port)]
    /\ UNCHANGED <<graphVars, toolVars, bridgeVars, cycleVars>>

TwinSearchEvents ==
    /\ twin = NoTwin
    /\ \E ab \in AuthPairs, k \in Keywords, w \in Windows, created \in CreateOutcomes,
          loop \in LoopEnvs, port \in EventReplies :
        twin' = [left |-> search_events(k, w[1], w[2], ab[1],
                              get_calendar_client(None, created), loop, port),
                 right |-> search_events(k, w[1], w[2], ab[2],
                              get_calendar_client(None, created), loop, port)]
    /\ UNCHANGED <<graphVars, toolVars, bridgeVars, cycleVars>>

TwinReadEvent ==
    /\ twin = NoTwin
    /\ \E ab \in AuthPairs, e \in EventIds, c \in CalendarIds, created \in CreateOutcomes,
          loop \in LoopEnvs, port \in EventReply :
        twin' = [left |-> read_event(e, c, ab[1],
                              get_calendar_client(None, created), loop, port),
                 right |-> read_event(e, c, ab[2],
                              get_calendar_client(None, created), loop, port)]
    /\ UNCHANGED <<graphVars, toolVars, bridgeVars, cycleVars>>

TwinListCalendars ==
    /\ twin = NoTwin
    /\ \E ab \in AuthPairs, created \in CreateOutcomes, loop \in LoopEnvs,
          port \in {Ok(CalendarList)} \cup PortRaises :
        twin' = [left |-> list_calendars(ab[1],
                              get_calendar_client(None, created), loop, port),
                 right |-> list_calendars(ab[2],
                              get_calendar_client(None, created), loop, port)]
    /\ UNCHANGED <<graphVars, toolVars, bridgeVars, cycleVars>>

\* a terminal tool, called while the context holds the one or the other bundle
TwinTerminal ==
    /\ twin = NoTwin
    /\ \E ab \in AuthPairs, t \in TerminalSamples :
        twin' = [left |-> ToolCall(t[1], t[2], ab[1], <<>>, NoReply,
                                   "returned", t[3], NoError),
                 right |-> ToolCall(t[1], t[2], ab[2], <<>>, NoReply,
                                    "returned", t[3], NoError)]
    /\ UNCHANGED <<graphVars, toolVars, bridgeVars, cycleVars>>

\* the graph of agent/main.py, invoked with the one or the other bundle in the
\* auth field of its input
TwinNoonGraph ==
    /\ twin = NoTwin
    /\ \E ab \in AuthPairs, q \in Queries, llm \in LlmOutcomes :
        twin' = [left |-> ToolCall("noon_graph", <<q>>, ab[1], <<>>, NoReply, "returned",
                                   NoonGraphOutput([query |-> q, auth |-> ab[1]], llm),
                                   NoError),
                 right |-> ToolCall("noon_graph", <<q>>, ab[2], <<>>, NoReply, "returned",
                                    NoonGraphOutput([query |-> q, auth |-> ab[2]], llm),
                                    NoError)]
    /\ UNCHANGED <<graphVars, toolVars, bridgeVars, cycleVars>>

TwinIdle == twin = NoTwin

(***************************************************************************)
(* noon-agent/noon_agent/main.py: _route_after_agent applied to message    *)
(* histories of every shape, also those the graph never hands to it.       *)
(***************************************************************************)
HistoryMessages ==
    {HumanMessage(<<"a">>), AIMessage(<<>>), AIMessage(<<"ping">>),
     AIMessage(<<"ping", "clock">>), ToolMessage("ping")}

Histories == SeqUpTo(HistoryMessages, MaxHistory)

\* the router is called with a state
RouteInit ==
    /\ entry = "router"
    /\ node = "route"
    /\ gstate \in {[messages |-> h, context |-> <<>>] : h \in Histories}
    /\ output = NoOutput
    /\ escaped = NoExc
    /\ invoked = <<>>
    /\ roundTrips = 0
    /\ inFlight = {}

\* _route_after_agent(state) returns; its body reads state["messages"] and does
\* nothing else
RouteAfterAgent ==
    /\ node = "route"
    /\ node' = _route_after_agent(gstate)
    /\ UNCHANGED <<entry, gstate, output, escaped, invoked, roundTrips, inFlight>>
    /\ UNCHANGED toolVars
    /\ UNCHANGED <<bridgeVars, cycleVars, twin>>

(***************************************************************************)
(* backend/domains/calendars/schemas.py: the request models of the         *)
(* calendar API.  A request is the dict of its fields, None for a field    *)
(* that is not provided.                                                   *)
(***************************************************************************)
\* Field(..., min_length=1) on summary and calendar_id
MinLengthOk(value) == value # ""

\* CreateEventRequest.validate_date_fields
CreateEventRequest_validate_date_fields(self) ==
    LET has_datetime == self.start # None /\ self.end # None
        has_date == self.start_date # None /\ self.end_date # None
    IN  IF ~has_datetime /\ ~has_date
        THEN Raise(Exc("ValueError", "Either (start, end) for timed events or (start_date, end_date) for all-day events must be provided"))
        ELSE IF has_datetime /\ has_date
        THEN Raise(Exc("ValueError", "Cannot provide both datetime and date fields. Use datetime for timed events, date for all-day events."))
        ELSE Ok(self)

\* UpdateEventRequest.validate_date_fields
UpdateEventRequest_validate_date_fields(self) ==
    LET has_datetime == self.start # None \/ self.end # None
        has_date == self.start_date # None \/ self.end_date # None
    IN  IF has_datetime /\ has_date
        THEN Raise(Exc("ValueError", "Cannot provide both datetime and date fields. Use datetime for timed events, date for all-day events."))
        ELSE Ok(self)

\* CreateEventRequest(**data): the fields are validated, then the model validator
\* runs; either failure is raised as a ValidationError
CreateEventRequest(data) ==
    IF ~MinLengthOk(data.summary) \/ ~MinLengthOk(data.calendar_id)
    THEN Raise(Exc("ValidationError", "String should have at least 1 character"))
    ELSE LET validated == CreateEventRequest_validate_date_fields(data)
         IN  IF validated.kind = "raise"
             THEN Raise(Exc("ValidationError", validated.exc.msg))
             ELSE validated

\* UpdateEventRequest(**data)
UpdateEventRequest(data) ==
    IF ~MinLengthOk(data.calendar_id)
    THEN Raise(Exc("ValidationError", "String should have at least 1 character"))
    ELSE LET validated == UpdateEventRequest_validate_date_fields(data)
         IN  IF validated.kind = "raise"
             THEN Raise(Exc("ValidationError", validated.exc.msg))
             ELSE validated

\* the requests a client can send
EventRequests(summaries) ==
    [summary : summaries, calendar_id : {"", "c1"},
     start : {None, "2026-01-14T10:00"}, end : {None, "2026-01-14T11:00"},
     start_date : {None, "2026-01-14"}, end_date : {None, "2026-01-15"}]

\* the record of one validation
Validation(model, data, outcome) ==
    IF outcome.kind = "raise"
    THEN ToolCall(model, data, None, <<>>, NoReply, "raised", <<>>, outcome.exc)
    ELSE ToolCall(model, data, None, <<>>, NoReply, "returned", outcome.value, NoError)

ValidateCreateEvent ==
    /\ \E data \in EventRequests({"", "standup"}) :
        call' = Validation("CreateEventRequest", data, CreateEventRequest(data))
    /\ UNCHANGED <<auth_context, calendar_client, calendar, phase, cycleSetAuth>>
    /\ UNCHANGED graphVars
    /\ UNCHANGED <<bridgeVars, cycleVars, twin>>

ValidateUpdateEvent ==
    /\ \E data \in EventRequests({None, "standup"}) :
        call' = Validation("UpdateEventRequest", data, UpdateEventRequest(data))
    /\ UNCHANGED <<auth_context, calendar_client, calendar, phase, cycleSetAuth>>
    /\ UNCHANGED graphVars
    /\ UNCHANGED <<bridgeVars, cycleVars, twin>>

(***************************************************************************)
(* Specifications.                                                         *)
(***************************************************************************)
\* the tool layer at rest, for the graphs' specification
ToolIdle ==
    /\ auth_context = None
    /\ calendar_client = None
    /\ calendar = <<>>
    /\ phase = "active"
    /\ cycleSetAuth = FALSE
    /\ call = NoCall

Init == GraphInit /\ ToolIdle /\ BridgeIdle /\ CyclesIdle /\ TwinIdle

Next ==
    \/ InvokeNoonGraph
    \/ HelloWorldNode
    \/ InvokeAgent
    \/ AgentNode
    \/ ToolsNode
    \/ ToolReturns

Spec == Init /\ [][Next]_vars

InitTools == GraphInit /\ ToolInit /\ BridgeIdle /\ CyclesIdle /\ TwinIdle

NextTools ==
    \/ SetAuthContext
    \/ ReadSchedule
    \/ SearchEvents
    \/ ReadEvent
    \/ ListCalendars
    \/ ShowSchedule
    \/ ShowEvent
    \/ RequestCreateEvent
    \/ RequestUpdateEvent
    \/ RequestDeleteEvent
    \/ DoNothing
    \/ BeginCycle

SpecTools == InitTools /\ [][NextTools]_vars

\* one call of _run_async
InitBridge == GraphInit /\ ToolIdle /\ BridgeInit /\ CyclesIdle /\ TwinIdle

NextBridge ==
    \/ CallRunAsync
    \/ GetEventLoop
    \/ IsRunning
    \/ WorkerNewLoop
    \/ WorkerRuns
    \/ WorkerCloses
    \/ FutureResult
    \/ RunUntilComplete
    \/ Handler
    \/ RunOtherTask

SpecBridge == InitBridge /\ [][NextBridge]_vars

\* two concurrent cycles; the client may or may not have been created before
InitCycles ==
    /\ GraphInit
    /\ auth_context = None
    /\ calendar_client \in {None, "client0"}
    /\ calendar = <<>>
    /\ phase = "active"
    /\ cycleSetAuth = FALSE
    /\ call = NoCall
    /\ BridgeIdle
    /\ CyclesInit
    /\ TwinIdle

NextCycles ==
    \/ CycleSetAuth
    \/ CycleGetAuth
    \/ ClientIsNone
    \/ CreateClient
    \/ StoreClient
    \/ ReturnClient
    \/ CallPort

SpecCycles == InitCycles /\ [][NextCycles]_vars

\* pairs of runs that differ in the auth bundle
InitTwin == GraphInit /\ ToolInit /\ BridgeIdle /\ CyclesIdle /\ TwinIdle

NextTwin ==
    \/ TwinReadSchedule
    \/ TwinSearchEvents
    \/ TwinReadEvent
    \/ TwinListCalendars
    \/ TwinTerminal
    \/ TwinNoonGraph

SpecTwin == InitTwin /\ [][NextTwin]_vars

\* the router on its own
InitRoute == RouteInit /\ ToolIdle /\ BridgeIdle /\ CyclesIdle /\ TwinIdle

NextRoute == RouteAfterAgent

SpecRoute == InitRoute /\ [][NextRoute]_vars

\* the request models of the calendar API
InitSchemas == GraphInit /\ ToolIdle /\ BridgeIdle /\ CyclesIdle /\ TwinIdle

NextSchemas ==
    \/ ValidateCreateEvent
    \/ ValidateUpdateEvent

SpecSchemas == InitSchemas /\ [][NextSchemas]_vars

(***************************************************************************)
(* Properties.                                                             *)
(***************************************************************************)
\* a well-formed ActionRecord: {success, request in the six kinds, metadata}
WellFormedActionRecord(r) ==
    /\ DOMAIN r = OutputStateKeys
    /\ r["success"] \in BOOLEAN
    /\ r["request"] \in ActionKinds

\* the terminal tools among the tools a run has invoked
TerminalInvocations == {i \in DOMAIN invoked : invoked[i] \in EXTERNAL_TOOLS}

\* C1: every run of the compiled graph that reaches END has invoked exactly one
\* terminal tool, and the request of the record it returns is that tool's kind.
C1_ExactlyOneTerminalTool ==
    (entry = "noon_graph" /\ node = "END") =>
        /\ Cardinality(TerminalInvocations) = 1
        /\ \A i \in TerminalInvocations : output["request"] = KindOf(invoked[i])

\* The code configures no round-trip bound; the claim is stated for a bound one
\* below the number of round trips the model explores.
RoundTripBound == MaxRoundTrips - 1

\* C2: the number of agent -> tools -> agent round trips of a cycle never exceeds
\* the configured bound, and at the bound the cycle does not gather again.
C2_RoundTripsBounded ==
    /\ roundTrips <= RoundTripBound
    /\ (node = "tools" => roundTrips < RoundTripBound)

\* C4: no exception leaves the entry point, and what the entry point returns is
\* a well-formed ActionRecord, for every query and every outcome of the model.
C4_AlwaysActionRecord ==
    /\ escaped = NoExc
    /\ (node = "END" => WellFormedActionRecord(output))

\* an event that carries both identifiers (both keys are present)
CarriesIds(event) == {"id", "calendar_id"} \subseteq DOMAIN event

\* the five fields of a minimal event summary, None for a field the event lacks
Projection(event) ==
    [k \in {"id", "summary", "start", "end", "calendar_id"} |->
        IF k \in DOMAIN event THEN event[k] ELSE None]

\* the in-order subsequence of the events that carry both identifiers, projected
ExpectedSchedule(events) ==
    LET kept == SelectSeq(events, CarriesIds)
    IN  [i \in 1..Len(kept) |-> Projection(kept[i])]

\* the port answered the last call with a list of events (dicts)
AnsweredWithEvents ==
    /\ call.tool \in {"read_schedule", "search_events"}
    /\ call.reply.kind = "ok"
    /\ \A i \in DOMAIN call.reply.value : IsDict(call.reply.value[i])

Forwarded(event, result) ==
    \A k \in DOMAIN event : k \in DOMAIN result /\ result[k] = event[k]

\* C6: a lookup result of the port that lacks id or calendar_id is discarded by
\* read_schedule, search_events and read_event: it is not forwarded, with or
\* without the missing field filled in.
C6_MalformedLookupDiscarded ==
    /\ (AnsweredWithEvents /\ call.outcome = "returned") =>
           \A i \in DOMAIN call.result :
               \E j \in DOMAIN call.reply.value :
                   /\ CarriesIds(call.reply.value[j])
                   /\ call.result[i] = Projection(call.reply.value[j])
    /\ (/\ call.tool = "read_event"
        /\ call.reply.kind = "ok"
        /\ IsDict(call.reply.value)
        /\ ~CarriesIds(call.reply.value)) =>
           ~(call.outcome = "returned" /\ Forwarded(call.reply.value, call.result))

\* the lookup of the last read_event failed: the client could not be obtained,
\* the port raised, or the port found nothing
ReadEventFailed ==
    /\ call.tool = "read_event"
    /\ \/ call.reply.kind \in {"none", "raise"}
       \/ call.reply.kind = "ok" /\ ~IsDict(call.reply.value)

\* C7: read_event never raises; when the lookup fails it returns the minimal
\* record with the requested event id and calendar id and an error field.
C7_ReadEventFailureRecord ==
    /\ call.tool = "read_event" => call.outcome = "returned"
    /\ ReadEventFailed =>
        /\ DOMAIN call.result = {"id", "calendar_id", "error"}
        /\ call.result["id"] = call.args[1]
        /\ call.result["calendar_id"] = call.args[2]

\* C7 witness: the port raised during read_event and the tool returned the
\* minimal record with the port's message.
C7_Witness ==
    /\ ReadEventFailed
    /\ call.reply.kind = "raise"
    /\ call.outcome = "returned"
    /\ call.result["error"] = "upstream unavailable"

\* C8: when the port call fails, read_schedule raises the port's error, and
\* search_events and list_calendars return the empty list; none returns a part
\* of a result.
C8_FailurePolicy ==
    /\ (call.tool = "read_schedule" /\ call.reply.kind = "raise") =>
           /\ call.outcome = "raised"
           /\ call.error = call.reply.exc
    /\ (call.tool \in {"search_events", "list_calendars"} /\ call.reply.kind = "raise") =>
           /\ call.outcome = "returned"
           /\ call.result = <<>>
    /\ (call.tool \in {"read_schedule", "search_events"}
            /\ call.reply.kind = "ok" /\ call.outcome = "returned") =>
           call.result \in {<<>>, ExpectedSchedule(call.reply.value)}

\* C9: an information-gathering tool invoked with no auth bundle in the context
\* fails with Unauthenticated and does not call the port.
C9_UnauthenticatedWithoutBundle ==
    (call.tool \in INTERNAL_TOOLS /\ call.auth = None) =>
        /\ call.portCalls = <<>>
        /\ call.outcome = "raised"
        /\ call.error.type = "Unauthenticated"

\* C10: once the cycle's terminal action is emitted the bundle is no longer
\* readable, and a later cycle that did not set its own auth reads no bundle.
C10_BundleUnreadableAfterTerminal ==
    /\ phase = "terminated" => get_auth_context = None
    /\ (phase = "active" /\ ~cycleSetAuth) => get_auth_context = None

\* the step-by-step run of _run_async ends as the operator _run_async says
BridgeMatchesRunAsync ==
    pc["caller"] = "done" => bridge_result = _run_async(loop_env, coroutine.does)

\* C11: called inside a running event loop, _run_async never executes the
\* coroutine on that loop or in the calling thread: the coroutine is executed
\* once, by the worker thread on a loop of its own, and what the coroutine
\* returns is what _run_async returns; with no running loop the coroutine is
\* executed to completion by the calling thread itself.
C11_HandsOffRunningLoop ==
    /\ loop_env = "running" =>
           /\ \A i \in DOMAIN executions :
                  executions[i] = [thread |-> "worker", loop |-> "new"]
           /\ (pc["caller"] = "done" /\ coroutine.does.kind = "ok") =>
                  /\ bridge_result = coroutine.does
                  /\ Len(executions) = 1
    /\ loop_env \in {"none", "idle"} =>
           /\ \A i \in DOMAIN executions : executions[i].thread = "caller"
           /\ pc["worker"] = "idle"
           /\ pc["caller"] = "done" =>
                  /\ Len(executions) = 1
                  /\ coroutine.does.kind = "ok" => bridge_result = coroutine.does

\* C11 witness: in a running loop the worker thread has executed the coroutine
\* and _run_async has returned the coroutine's value.
C11_Witness ==
    /\ loop_env = "running"
    /\ pc["caller"] = "done"
    /\ pc["worker"] = "done"
    /\ bridge_result = Ok("events")
    /\ Len(executions) = 1

\* the calling thread waits in future.result() for the coroutine it handed off
WaitingForWorker == loop_env = "running" /\ pc["caller"] = "result" /\ future = NoReply

\* C12: while a call made inside a running loop waits for the handed-off
\* coroutine, the loop can still run its other ready tasks, and the worker is
\* never stuck waiting for the loop.
C12_OnlyCallingCycleBlocked ==
    WaitingForWorker =>
        /\ ready > 0 => ENABLED RunOtherTask
        /\ ENABLED (WorkerNewLoop \/ WorkerRuns \/ WorkerCloses)

\* C13: in every interleaving of two cycles that set their own bundle and then
\* call a tool, each call the port receives carries the bundle of the cycle
\* that made it.
C13_OwnBundleReachesPort ==
    \A i \in DOMAIN port_log : port_log[i].auth = BundleOf(port_log[i].cycle)

\* C13 witness: both cycles have set their bundle and called the port, and the
\* port has received two different bundles.
C13_Witness ==
    /\ Len(port_log) = 2
    /\ port_log[1].cycle # port_log[2].cycle
    /\ port_log[1].auth # port_log[2].auth

\* C14: with no set_calendar_client call, create_calendar_client is executed at
\* most once, whatever the interleaving, and all callers of get_calendar_client
\* get the same instance.
C14_ClientConstructedOnce ==
    /\ Len(creations) <= 1
    /\ \A i, j \in DOMAIN port_log : port_log[i].client = port_log[j].client

\* C15: within one cycle at most one tool call is in flight at any time, also
\* when one reasoning step proposes several tool calls.
C15_ToolCallsSequential == Cardinality(inFlight) <= 1

\* C16: when a reasoning step proposes no tool call, the loop ends the cycle with
\* a forced no-action record.
C16_ForcedNoAction ==
    (entry = "invoke_agent" /\ node = "END") =>
        /\ WellFormedActionRecord(output)
        /\ output["request"] = "no-action"

\* the last call returned a terminal record of one of the given tools
Emitted(tools) == call.tool \in tools /\ call.outcome = "returned"

\* the key is in the dict with a value that is neither None nor empty
NonEmptyAt(d, k) == k \in DOMAIN d /\ d[k] # None /\ d[k] # ""

\* C17: every record of show_event, request_update_event and
\* request_delete_event has a non-empty event-id and a non-empty calendar-id in
\* its metadata, for every argument the tool accepts.
C17_EventRefNonEmpty ==
    Emitted({"show_event", "request_update_event", "request_delete_event"}) =>
        /\ NonEmptyAt(call.result.metadata, "event-id")
        /\ NonEmptyAt(call.result.metadata, "calendar-id")

\* C18: every terminal record that refers to an event or a calendar has the
\* top-level fields success, request and metadata, and names the event and the
\* calendar event-id and calendar-id in metadata, whatever its kind.
C18_HyphenatedFieldNames ==
    /\ Emitted({"show_event", "request_create_event", "request_update_event",
                "request_delete_event"}) =>
           /\ DOMAIN call.result = OutputStateKeys
           /\ "calendar-id" \in DOMAIN call.result.metadata
           /\ {"calendar_id", "event_id"} \cap DOMAIN call.result.metadata = {}
    /\ Emitted({"show_event", "request_update_event", "request_delete_event"}) =>
           "event-id" \in DOMAIN call.result.metadata

\* C19: two runs that differ only in the auth bundle end the same way with the
\* same payload, for every tool, and the output of the graph has no auth field.
C19_PayloadIndependentOfAuth ==
    /\ twin.left.outcome = twin.right.outcome
    /\ twin.left.result = twin.right.result
    /\ twin.left.error = twin.right.error
    /\ twin.left.tool = "noon_graph" =>
           /\ "auth" \notin DOMAIN twin.left.result
           /\ "auth" \notin DOMAIN twin.right.result

\* C19 witness: the graph was invoked with two different bundles in its input.
C19_Witness ==
    /\ twin.left.tool = "noon_graph"
    /\ twin.left.auth = "authA"
    /\ twin.right.auth = "authB"
    /\ twin.left.result["request"] = "no-action"

\* a time of day in minutes; -1 for a text that is no time
Minutes(t) == IF t = "09:00" THEN 540 ELSE IF t = "10:00" THEN 600 ELSE -1

\* the start and the end of the window in the arguments of the last call
WindowOf(c) ==
    IF c.tool \in {"read_schedule", "show_schedule"}
    THEN <<c.args[1], c.args[2]>>
    ELSE <<c.args[2], c.args[3]>>

\* C20: read_schedule, search_events, show_schedule and request_create_event
\* reject a window whose start is not before its end: no call of the port and
\* no record for it.
C20_WindowStartBeforeEnd ==
    (/\ call.tool \in {"read_schedule", "search_events", "show_schedule",
                       "request_create_event"}
     /\ Minutes(WindowOf(call)[1]) >= Minutes(WindowOf(call)[2])) =>
        /\ call.portCalls = <<>>
        /\ call.outcome # "returned"

\* the record's start and end are both given as a date and time
HasDateTimePair(m) ==
    /\ {"start", "end"} \subseteq DOMAIN m
    /\ "dateTime" \in DOMAIN m["start"]
    /\ "dateTime" \in DOMAIN m["end"]

\* the record's start and end are given as all-day dates, in either spelling
HasDatePair(m) ==
    \/ {"start_date", "end_date"} \cap DOMAIN m # {}
    \/ "start" \in DOMAIN m /\ "date" \in DOMAIN m["start"]
    \/ "end" \in DOMAIN m /\ "date" \in DOMAIN m["end"]

\* C21: every create-event record of request_create_event has the datetime pair
\* for start and end and no all-day date: exactly one of the two, never both and
\* never neither, for every combination of arguments.
C21_ExactlyOneTimeRepresentation ==
    Emitted({"request_create_event"}) =>
        /\ call.result.type = "create-event"
        /\ HasDateTimePair(call.result.metadata)
        /\ ~HasDatePair(call.result.metadata)
        /\ call.result.metadata["start"] = [dateTime |-> call.args[2]]
        /\ call.result.metadata["end"] = [dateTime |-> call.args[3]]

\* C21 witness: request_create_event returned a record for a call with a
\* description and no location.
C21_Witness ==
    /\ Emitted({"request_create_event"})
    /\ call.args[5] = "notes"
    /\ call.args[6] = None
    /\ "description" \in DOMAIN call.result.metadata

\* the fields of an event that an update can change
UpdateFields == {"summary", "start", "end", "description", "location"}

\* C22: request_update_event called with no field set to a non-empty value
\* produces no update-event record.
C22_EmptyUpdateIsNoAction ==
    Emitted({"request_update_event"}) =>
        (call.result.type = "update-event" =>
            UpdateFields \cap DOMAIN call.result.metadata # {})

\* C23: a step in which a terminal tool is invoked calls the port neither for a
\* read nor for a write and leaves the auth context and the global calendar
\* client as they were.
C23_TerminalToolsOnlyDescribe ==
    [][(phase = "active" /\ phase' = "terminated") =>
           /\ call'.tool \in EXTERNAL_TOOLS
           /\ call'.portCalls = <<>>
           /\ call'.reply = NoReply
           /\ auth_context' = auth_context
           /\ calendar_client' = calendar_client]_vars

\* C23 witness: a terminal tool was invoked in a cycle that had set its auth and
\* had created the client.
C23_Witness ==
    /\ phase = "terminated"
    /\ call.tool = "request_delete_event"
    /\ auth_context = "authA"
    /\ calendar_client = "created"

\* the position of each changeable field among request_update_event's arguments
UpdateArg(k) ==
    CASE k = "summary" -> 3
      [] k = "start" -> 4
      [] k = "end" -> 5
      [] k = "description" -> 6
      [] k = "location" -> 7

\* the value a supplied argument has in the record
UpdateValue(k, v) == IF k \in {"start", "end"} THEN [dateTime |-> v] ELSE v

\* C26: the metadata of an update-event record has event-id, calendar-id and
\* exactly the changeable fields whose argument was supplied, each with the
\* supplied value.
C26_AbsentMeansNoChange ==
    Emitted({"request_update_event"}) =>
        /\ DOMAIN call.result.metadata \subseteq {"event-id", "calendar-id"} \cup UpdateFields
        /\ call.result.metadata["event-id"] = call.args[1]
        /\ call.result.metadata["calendar-id"] = call.args[2]
        /\ \A k \in UpdateFields :
               /\ k \in DOMAIN call.result.metadata <=> call.args[UpdateArg(k)] # None
               /\ k \in DOMAIN call.result.metadata =>
                      call.result.metadata[k] = UpdateValue(k, call.args[UpdateArg(k)])

\* the decision of the router as the claim words it
ExpectedRoute(messages) ==
    IF /\ Len(messages) > 0
       /\ messages[Len(messages)].type = "ai"
       /\ Len(messages[Len(messages)].tool_calls) >= 1
    THEN "tools"
    ELSE "END"

\* C24: _route_after_agent returns "tools" exactly when the history is not empty
\* and its last message is an AIMessage with at least one tool call, and END in
\* every other case; the call invokes no tool and leaves the state as it was.
C24_RouterIsPureDecision ==
    [][node = "route" =>
           /\ node' = ExpectedRoute(gstate["messages"])
           /\ gstate' = gstate
           /\ invoked' = invoked
           /\ inFlight' = inFlight]_vars

\* C24 witness: the router sent a history of three messages, the last one an
\* AIMessage with two tool calls, to the tools node.
C24_Witness ==
    /\ entry = "router"
    /\ node = "tools"
    /\ Len(gstate["messages"]) = 3
    /\ gstate["messages"][3] = AIMessage(<<"ping", "clock">>)

\* C25: CreateEventRequest accepts a request, its other fields being valid,
\* exactly when one of the two representations is provided complete and no field
\* of the other one is provided.
C25_ExactlyOneRepresentation ==
    (/\ call.tool = "CreateEventRequest"
     /\ MinLengthOk(call.args.summary)
     /\ MinLengthOk(call.args.calendar_id)) =>
        LET anyDatetime == call.args.start # None \/ call.args.end # None
            anyDate == call.args.start_date # None \/ call.args.end_date # None
            datetimePair == call.args.start # None /\ call.args.end # None
            datePair == call.args.start_date # None /\ call.args.end_date # None
        IN  call.outcome = "returned" <=>
                \/ datetimePair /\ ~anyDate
                \/ datePair /\ ~anyDatetime

\* C27: one call of _run_async executes the coroutine at most once, never runs
\* or submits it again after it was awaited, and raises the coroutine's own
\* error when the coroutine raises.
C27_CoroutineRunAtMostOnce ==
    /\ Len(executions) <= 1
    /\ pc["caller"] = "handler" => ~coroutine.awaited
    /\ (pc["caller"] = "done" /\ coroutine.does.kind = "raise") =>
           bridge_result = coroutine.does

====
